---------------------------- MODULE Spec2Model ----------------------------
(***************************************************************************)
(* Model of QuicktimeGenerator.render_and_submit and UploaderThread of     *)
(* app.py: one foreground call of render_and_submit, the background        *)
(* UploaderThread it starts, the Qt event loop it waits in, the movie file *)
(* on disk and the Shotgun calls (create, upload, upload_thumbnail).       *)
(***************************************************************************)
EXTENDS Naturals, Sequences, FiniteSets, TLC

VARIABLES
    upload_to_shotgun,  \* app setting "upload_to_shotgun"
    store_on_disk,      \* app setting "store_on_disk"
    pc,                 \* position of the foreground in render_and_submit
    progress,           \* percentages passed to progress_cb, in call order
    warnings,           \* number of log_warning calls
    renderCalls,        \* number of times _render_movie_in_nuke was invoked
    createCalls,        \* number of shotgun.create("Version", ...) calls
    versions,           \* number of Version records existing in Shotgun
    sg_version,         \* the local sg_version: "none" or "version"
    fileOnDisk,         \* os.path.exists(output_path)
    thread,             \* UploaderThread: "none", "created", "run", "thumb", "ran", "finished"
    startCalls,         \* number of thread.start() calls
    upload_error,       \* the local upload_error of UploaderThread.run
    errors,             \* UploaderThread._errors
    uploadCalls,        \* number of shotgun.upload calls
    uploadOk,           \* the movie upload was attempted and did not raise
    thumbCalls,         \* number of shotgun.upload_thumbnail calls
    thumbOk,            \* the thumbnail upload was attempted and did not raise
    connected,          \* thread.finished is connected to event_loop.quit
    quitPosted,         \* a queued call of event_loop.quit waits in the foreground's event queue
    loopExit,           \* the exit flag of the QEventLoop
    logged,             \* messages passed to log_error
    unlinkCalls,        \* number of os.unlink calls
    result,             \* outcome of the call: "pending", "null", "version", "raised"
    raisedBy,           \* the exception that left render_and_submit: "none", "render", "create"
    renderRaised,       \* _render_movie_in_nuke raised
    createRaised,       \* shotgun.create raised
    finishedBeforeWait  \* finished was emitted before exec_() was entered

vars == <<upload_to_shotgun, store_on_disk, pc, progress, warnings, renderCalls,
          createCalls, versions, sg_version, fileOnDisk, thread, startCalls,
          upload_error, errors, uploadCalls, uploadOk, thumbCalls, thumbOk,
          connected, quitPosted, loopExit, logged, unlinkCalls, result, raisedBy,
          renderRaised, createRaised, finishedBeforeWait>>

outcomes == <<renderRaised, createRaised, finishedBeforeWait>>

fgVars == <<pc, progress, warnings, renderCalls, createCalls, versions,
            sg_version, logged, unlinkCalls, result, raisedBy, outcomes>>

workerVars == <<thread, upload_error, errors, uploadCalls, uploadOk,
                thumbCalls, thumbOk>>

config == <<upload_to_shotgun, store_on_disk>>

MovieError == "Movie upload to Shotgun failed"
ThumbnailError == "Thumbnail upload to Shotgun failed"

Init ==
    /\ upload_to_shotgun \in BOOLEAN
    /\ store_on_disk \in BOOLEAN
    /\ pc = "entry"
    /\ progress = <<>>
    /\ warnings = 0
    /\ renderCalls = 0
    /\ createCalls = 0
    /\ versions = 0
    /\ sg_version = "none"
    /\ fileOnDisk = FALSE
    /\ thread = "none"
    /\ startCalls = 0
    /\ upload_error = FALSE
    /\ errors = <<>>
    /\ uploadCalls = 0
    /\ uploadOk = FALSE
    /\ thumbCalls = 0
    /\ thumbOk = FALSE
    /\ connected = FALSE
    /\ quitPosted = FALSE
    /\ loopExit = FALSE
    /\ logged = <<>>
    /\ unlinkCalls = 0
    /\ result = "pending"
    /\ raisedBy = "none"
    /\ renderRaised = FALSE
    /\ createRaised = FALSE
    /\ finishedBeforeWait = FALSE

(***************************************************************************)
(* The foreground: render_and_submit                                       *)
(***************************************************************************)

\* "Is the app configured to do anything?": the condition of the early return.
NotConfigured_SwappedFlag == ~upload_to_shotgun /\ store_on_disk
NotConfigured == ~upload_to_shotgun /\ ~store_on_disk

CheckConfig ==
    /\ pc = "entry"
    /\ IF NotConfigured
         THEN /\ warnings' = warnings + 1
              /\ result' = "null"
              /\ pc' = "returned"
         ELSE /\ pc' = "cb10"
              /\ UNCHANGED <<warnings, result>>
    /\ UNCHANGED <<outcomes, config, progress, renderCalls, createCalls, versions, sg_version,
                   fileOnDisk, startCalls, connected, quitPosted, loopExit,
                   logged, unlinkCalls, raisedBy>>
    /\ UNCHANGED workerVars

\* The percentage each progress_cb call of render_and_submit passes.
Percent_Swapped(at) ==
    CASE at = "cb10" -> 10
      [] at = "cb20" -> 50
      [] at = "cb50" -> 20
      [] at = "cb60" -> 60
Percent(at) ==
    CASE at = "cb10" -> 10
      [] at = "cb20" -> 20
      [] at = "cb50" -> 50
      [] at = "cb60" -> 60

\* The statement that follows each progress_cb call.
AfterProgress(at) ==
    CASE at = "cb10" -> "resolve"
      [] at = "cb20" -> "render"
      [] at = "cb50" -> "submit"
      [] at = "cb60" -> "mkthread"

ReportProgress ==
    /\ pc \in {"cb10", "cb20", "cb50", "cb60"}
    /\ progress' = Append(progress, Percent(pc))
    /\ pc' = AfterProgress(pc)
    /\ UNCHANGED <<outcomes, config, warnings, renderCalls, createCalls, versions,
                   sg_version, fileOnDisk, startCalls, connected, quitPosted, loopExit,
                   logged, unlinkCalls, result, raisedBy>>
    /\ UNCHANGED workerVars

\* Copy the fields, set the sequence keys, resolve the input and output paths.
ResolvePaths ==
    /\ pc = "resolve"
    /\ pc' = "cb20"
    /\ UNCHANGED <<outcomes, config, progress, warnings, renderCalls, createCalls, versions,
                   sg_version, fileOnDisk, startCalls, connected, quitPosted,
                   loopExit, logged, unlinkCalls, result, raisedBy>>
    /\ UNCHANGED workerVars

\* Where render_and_submit continues after _render_movie_in_nuke: an
\* exception of the renderer is not caught.
AfterRender_Swallowed(ok) == "cb50"
AfterRender(ok) == IF ok THEN "cb50" ELSE "raised"

\* _render_movie_in_nuke: nuke.executeMultiple writes output_path or raises.
RenderMovie ==
    /\ pc = "render"
    /\ renderCalls' = renderCalls + 1
    /\ \E ok \in BOOLEAN :
         /\ pc' = AfterRender(ok)
         /\ fileOnDisk' = (fileOnDisk \/ ok)
         /\ result' = IF pc' = "raised" THEN "raised" ELSE result
         /\ raisedBy' = IF pc' = "raised" THEN "render" ELSE raisedBy
         /\ renderRaised' = ~ok
    /\ UNCHANGED <<createRaised, finishedBeforeWait, config, progress, warnings,
                   createCalls, versions, sg_version, startCalls, connected, quitPosted, loopExit, logged, unlinkCalls>>
    /\ UNCHANGED workerVars

\* Where render_and_submit continues after _submit_version: an exception of
\* shotgun.create is not caught.
AfterSubmit_Swallowed(ok) == "cb60"
AfterSubmit(ok) == IF ok THEN "cb60" ELSE "raised"

\* _submit_version: one shotgun.create("Version", data) call.
SubmitVersion ==
    /\ pc = "submit"
    /\ createCalls' = createCalls + 1
    /\ \E ok \in BOOLEAN :
         /\ pc' = AfterSubmit(ok)
         /\ versions' = IF ok THEN versions + 1 ELSE versions
         /\ sg_version' = IF ok THEN "version" ELSE sg_version
         /\ result' = IF pc' = "raised" THEN "raised" ELSE result
         /\ raisedBy' = IF pc' = "raised" THEN "create" ELSE raisedBy
         /\ createRaised' = ~ok
    /\ UNCHANGED <<renderRaised, finishedBeforeWait, config, progress, warnings, renderCalls, fileOnDisk, startCalls,
                   connected, quitPosted, loopExit, logged, unlinkCalls>>
    /\ UNCHANGED workerVars

\* event_loop = QEventLoop(); thread = UploaderThread(...);
\* thread.finished.connect(event_loop.quit)
MakeThread ==
    /\ pc = "mkthread"
    /\ thread' = "created"
    /\ errors' = <<>>
    /\ connected' = TRUE
    /\ loopExit' = FALSE
    /\ pc' = "start"
    /\ UNCHANGED <<outcomes, config, progress, warnings, renderCalls, createCalls, versions,
                   sg_version, fileOnDisk, startCalls, quitPosted, logged,
                   unlinkCalls, result, raisedBy>>
    /\ UNCHANGED <<upload_error, uploadCalls, uploadOk, thumbCalls, thumbOk>>

\* thread.start()
StartThread ==
    /\ pc = "start"
    /\ thread = "created"
    /\ thread' = "run"
    /\ startCalls' = startCalls + 1
    /\ pc' = "exec"
    /\ UNCHANGED <<outcomes, config, progress, warnings, renderCalls, createCalls, versions,
                   sg_version, fileOnDisk, connected, quitPosted, loopExit, logged,
                   unlinkCalls, result, raisedBy>>
    /\ UNCHANGED <<upload_error, errors, uploadCalls, uploadOk, thumbCalls, thumbOk>>

\* event_loop.exec_() is entered: the exit flag is cleared, events are processed.
ExecEnter ==
    /\ pc = "exec"
    /\ loopExit' = FALSE
    /\ pc' = "loop"
    /\ finishedBeforeWait' = (thread = "finished")
    /\ UNCHANGED <<renderRaised, createRaised, config, progress, warnings, renderCalls, createCalls, versions,
                   sg_version, fileOnDisk, startCalls, connected, quitPosted, logged,
                   unlinkCalls, result, raisedBy>>
    /\ UNCHANGED workerVars

\* Inside exec_(): the queued call of event_loop.quit is delivered.
ExecDeliverQuit ==
    /\ pc = "loop"
    /\ quitPosted
    /\ quitPosted' = FALSE
    /\ loopExit' = TRUE
    /\ UNCHANGED <<config, fileOnDisk, startCalls, connected>>
    /\ UNCHANGED fgVars
    /\ UNCHANGED workerVars

\* exec_() returns when the exit flag of the loop is set.
ExecMayReturn_NoWait == TRUE
ExecMayReturn == loopExit

ExecReturn ==
    /\ pc = "loop"
    /\ ExecMayReturn
    /\ pc' = "log"
    /\ UNCHANGED <<outcomes, config, progress, warnings, renderCalls, createCalls, versions,
                   sg_version, fileOnDisk, startCalls, connected, quitPosted, loopExit,
                   logged, unlinkCalls, result, raisedBy>>
    /\ UNCHANGED workerVars

\* for e in thread.get_errors(): self.log_error(e)
LogErrors ==
    /\ pc = "log"
    /\ logged' = logged \o errors
    /\ pc' = "cleanup"
    /\ UNCHANGED <<outcomes, config, progress, warnings, renderCalls, createCalls, versions,
                   sg_version, fileOnDisk, startCalls, connected, quitPosted, loopExit,
                   unlinkCalls, result, raisedBy>>
    /\ UNCHANGED workerVars

\* "Remove from filesystem if required": the condition guarding os.unlink.
ShouldUnlink_Never == FALSE
ShouldUnlink_Always == fileOnDisk
ShouldUnlink_OnlyIfUploaded == ~store_on_disk /\ fileOnDisk /\ errors = <<>>
ShouldUnlink == ~store_on_disk /\ fileOnDisk

Cleanup ==
    /\ pc = "cleanup"
    /\ IF ShouldUnlink
         THEN /\ fileOnDisk' = FALSE
              /\ unlinkCalls' = unlinkCalls + 1
         ELSE UNCHANGED <<fileOnDisk, unlinkCalls>>
    /\ pc' = "return"
    /\ UNCHANGED <<outcomes, config, progress, warnings, renderCalls, createCalls, versions,
                   sg_version, startCalls, connected, quitPosted, loopExit, logged,
                   result, raisedBy>>
    /\ UNCHANGED workerVars

\* return sg_version
Return ==
    /\ pc = "return"
    /\ result' = sg_version
    /\ pc' = "returned"
    /\ UNCHANGED <<outcomes, config, progress, warnings, renderCalls, createCalls, versions,
                   sg_version, fileOnDisk, startCalls, connected, quitPosted, loopExit,
                   logged, unlinkCalls, raisedBy>>
    /\ UNCHANGED workerVars

(***************************************************************************)
(* The background: UploaderThread.run                                      *)
(***************************************************************************)

\* if self._upload_to_shotgun: try upload(...) except: append, upload_error = True
UploadMovie ==
    /\ thread = "run"
    /\ IF upload_to_shotgun
         THEN /\ uploadCalls' = uploadCalls + 1
              /\ \E ok \in BOOLEAN :
                   /\ uploadOk' = ok
                   /\ upload_error' = ~ok
                   /\ errors' = IF ok THEN errors ELSE Append(errors, MovieError)
         ELSE UNCHANGED <<uploadCalls, uploadOk, upload_error, errors>>
    /\ thread' = "thumb"
    /\ UNCHANGED <<thumbCalls, thumbOk>>
    /\ UNCHANGED <<config, fileOnDisk, startCalls, connected, quitPosted, loopExit>>
    /\ UNCHANGED fgVars

\* The condition guarding the thumbnail upload.
ThumbnailWanted_NoFallback == ~upload_to_shotgun
ThumbnailWanted_Always == TRUE
ThumbnailWanted == ~upload_to_shotgun \/ upload_error

\* if not self._upload_to_shotgun or upload_error: try upload_thumbnail(...) except: append
UploadThumbnail ==
    /\ thread = "thumb"
    /\ IF ThumbnailWanted
         THEN /\ thumbCalls' = thumbCalls + 1
              /\ \E ok \in BOOLEAN :
                   /\ thumbOk' = ok
                   /\ errors' = IF ok THEN errors ELSE Append(errors, ThumbnailError)
         ELSE UNCHANGED <<thumbCalls, thumbOk, errors>>
    /\ thread' = "ran"
    /\ UNCHANGED <<upload_error, uploadCalls, uploadOk>>
    /\ UNCHANGED <<config, fileOnDisk, startCalls, connected, quitPosted, loopExit>>
    /\ UNCHANGED fgVars

\* run() has returned: QThread emits finished from the worker; the connected
\* event_loop.quit lives in the foreground, so the call is queued there.
EmitFinished ==
    /\ thread = "ran"
    /\ thread' = "finished"
    /\ quitPosted' = connected
    /\ UNCHANGED <<upload_error, errors, uploadCalls, uploadOk, thumbCalls, thumbOk>>
    /\ UNCHANGED <<config, fileOnDisk, startCalls, connected, loopExit>>
    /\ UNCHANGED fgVars

Next ==
    \/ CheckConfig
    \/ ReportProgress
    \/ ResolvePaths
    \/ RenderMovie
    \/ SubmitVersion
    \/ MakeThread
    \/ StartThread
    \/ ExecEnter
    \/ ExecDeliverQuit
    \/ ExecReturn
    \/ LogErrors
    \/ Cleanup
    \/ Return
    \/ UploadMovie
    \/ UploadThumbnail
    \/ EmitFinished

Spec == Init /\ [][Next]_vars

\* Both threads are scheduled by the operating system: the run never stops
\* while a step of the foreground or of the worker is possible.
FairSpec == Spec /\ WF_vars(Next)

(***************************************************************************)
(* Properties                                                              *)
(***************************************************************************)

Checkpoints == <<10, 20, 50, 60>>

IsPrefix(s, t) == Len(s) <= Len(t) /\ \A i \in 1..Len(s) : s[i] = t[i]

WorkerDone == thread \in {"ran", "finished"}

Returned == pc = "returned" /\ result = "version"

\* The error list UploaderThread.run must have left, given what each
\* attempted upload did.
ExpectedErrors ==
    (IF uploadCalls = 1 /\ ~uploadOk THEN <<MovieError>> ELSE <<>>)
        \o (IF thumbCalls = 1 /\ ~thumbOk THEN <<ThumbnailError>> ELSE <<>>)

\* C1: with upload_to_shotgun and store_on_disk both false, the call returns
\* null after one warning and nothing else happens: no render, no Version, no
\* worker, no upload and no thumbnail upload.
C1_NothingConfiguredDoesNothing ==
    (~upload_to_shotgun /\ ~store_on_disk) =>
        /\ pc \in {"entry", "returned"}
        /\ pc = "returned" => (result = "null" /\ warnings = 1)
        /\ renderCalls = 0 /\ createCalls = 0 /\ versions = 0
        /\ thread = "none" /\ startCalls = 0
        /\ uploadCalls = 0 /\ thumbCalls = 0 /\ unlinkCalls = 0
        /\ ~fileOnDisk

C1_Witness ==
    ~upload_to_shotgun /\ ~store_on_disk /\ pc = "returned" /\ result = "null"
        /\ warnings = 1

\* C2: in every interleaving the movie file exists when the worker uploads
\* it, it is deleted only after the worker has finished, and exec_() returns
\* only after the worker has finished, also when the worker finished before
\* exec_() was entered.
C2_NoDeleteBeforeUpload ==
    [][ /\ (uploadCalls' > uploadCalls) => fileOnDisk
        /\ (fileOnDisk /\ ~fileOnDisk') => thread = "finished"
        /\ (pc = "loop" /\ pc' # "loop") => thread = "finished"
        /\ (pc' \in {"log", "cleanup", "return", "returned"} /\ startCalls' > 0)
              => thread' = "finished" ]_vars

C2_Witness ==
    finishedBeforeWait /\ uploadOk /\ unlinkCalls = 1 /\ ~fileOnDisk /\ Returned

\* C3: when the movie upload raises, the thumbnail upload is still attempted,
\* the error list holds one message per failed upload and none for a
\* successful one, nothing raises out of the worker or the call, and the
\* call goes on to return the created Version.
C3_UploadFailureIsolated ==
    /\ [](upload_error => uploadCalls = 1 /\ ~uploadOk)
    /\ []((upload_error /\ WorkerDone) => thumbCalls = 1)
    /\ [](WorkerDone => errors = ExpectedErrors)
    /\ [](startCalls > 0 => (result # "raised" /\ raisedBy = "none" /\ pc # "raised"))
    /\ []((pc = "returned" /\ upload_error) =>
              (result = "version" /\ sg_version = "version" /\ versions = 1
                  /\ logged = errors))
    /\ (upload_error ~> Returned)

C3_Witness ==
    Returned /\ upload_error /\ thumbCalls = 1 /\ thumbOk /\ errors = <<MovieError>>

\* C4: the movie upload is attempted exactly when upload_to_shotgun is true,
\* before any thumbnail upload; the thumbnail upload is attempted exactly when
\* upload_to_shotgun is false or the movie upload was attempted and failed.
C4_ThumbnailExactlyAsFallback ==
    /\ thread \in {"none", "created", "run"} => (uploadCalls = 0 /\ thumbCalls = 0)
    /\ thread \in {"thumb", "ran", "finished"} =>
           uploadCalls = (IF upload_to_shotgun THEN 1 ELSE 0)
    /\ thread = "thumb" => thumbCalls = 0
    /\ WorkerDone =>
           thumbCalls = (IF ~upload_to_shotgun \/ (uploadCalls = 1 /\ ~uploadOk)
                           THEN 1 ELSE 0)

C4_Witness ==
    thread = "finished" /\ upload_to_shotgun /\ uploadOk /\ thumbCalls = 0

C6_KeptOnDisk ==
    store_on_disk =>
        /\ unlinkCalls = 0
        /\ (renderCalls = 1 /\ ~renderRaised) => fileOnDisk
        /\ Returned => fileOnDisk

C6_Witness ==
    Returned /\ store_on_disk /\ upload_error /\ thumbCalls = 1 /\ ~thumbOk
        /\ fileOnDisk

\* C7: when the renderer raises, that exception leaves the call, no Version
\* is created and no worker is started.
C7_RenderFailureFatal ==
    renderRaised =>
        /\ pc = "raised" /\ result = "raised" /\ raisedBy = "render"
        /\ createCalls = 0 /\ versions = 0 /\ sg_version = "none"
        /\ thread = "none" /\ startCalls = 0
        /\ uploadCalls = 0 /\ thumbCalls = 0

C7_Witness == renderRaised /\ result = "raised" /\ renderCalls = 1

\* C8: when shotgun.create raises, that exception leaves the call, create is
\* called once only, no worker is started, nothing is uploaded, and the
\* cleanup never runs, so the rendered movie stays on disk, also with
\* store_on_disk false.
C8_SubmitFailureFatal ==
    createRaised =>
        /\ pc = "raised" /\ result = "raised" /\ raisedBy = "create"
        /\ createCalls = 1 /\ versions = 0 /\ sg_version = "none"
        /\ thread = "none" /\ startCalls = 0
        /\ uploadCalls = 0 /\ thumbCalls = 0
        /\ unlinkCalls = 0 /\ fileOnDisk

C8_Witness == createRaised /\ result = "raised" /\ ~store_on_disk /\ fileOnDisk

\* C9: progress_cb receives 10, 20, 50, 60 in that order, each once and each
\* before its stage: 10 before the paths are resolved, 20 before the
\* renderer, 50 before the Version is created, 60 before the worker is made;
\* a call that raised has reported a proper prefix, a call that returned a
\* Version has reported all four.
C9_ProgressCheckpoints ==
    /\ IsPrefix(progress, Checkpoints)
    /\ pc = "resolve" => progress = <<10>>
    /\ pc = "render" => progress = <<10, 20>>
    /\ renderCalls > 0 => Len(progress) >= 2
    /\ pc = "submit" => progress = <<10, 20, 50>>
    /\ createCalls > 0 => Len(progress) >= 3
    /\ (pc = "mkthread" \/ thread # "none") => progress = Checkpoints
    /\ renderRaised => progress = <<10, 20>>
    /\ createRaised => progress = <<10, 20, 50>>
    /\ Returned => progress = Checkpoints

C9_Witness == Returned /\ progress = <<10, 20, 50, 60>>

\* C10: with store_on_disk false, once the call has returned a Version the
\* movie file is absent whatever the uploads did, also when the movie upload
\* failed.
C10_DeletedWhateverTheUpload ==
    (~store_on_disk /\ Returned) => (~fileOnDisk /\ unlinkCalls = 1)

C10_Witness ==
    ~store_on_disk /\ Returned /\ upload_error /\ ~uploadOk /\ ~fileOnDisk

=============================================================================
